---- MODULE Spec2Model ----
(***************************************************************************)
(* A state-machine model of the RAG product Q&A repository:                *)
(*   app/main.py            the FastAPI service (startup hook, /query)     *)
(*   scripts/1_ingest_data.py   the batch ingestion run                    *)
(*                                                                         *)
(* Four specifications share the variables:                                *)
(*   Spec        the service as deployed: startup_event runs               *)
(*               initialize_qa_chain once, then /query requests are served *)
(*               one at a time on the event loop, while ingestion runs of  *)
(*               1_ingest_data.py may add to the persisted index;          *)
(*   LiveSpec    Spec with the fairness of a server that keeps serving;    *)
(*   InitSpec    initialize_qa_chain called by two threads, statement by   *)
(*               statement, possibly several times each;                   *)
(*   IngestSpec  runs of 1_ingest_data.py, statement by statement.         *)
(***************************************************************************)
EXTENDS Integers, Sequences, FiniteSets, TLC

(* ------------------------------ bounds -------------------------------- *)
\* largest number of entries the persisted index holds in the model
MaxChunks == 4
\* calls of initialize_qa_chain per thread under InitSpec
MaxCalls == 2

(* -------------------------- program constants -------------------------- *)
\* qa_chain = None
NoChain == 0
\* search_kwargs={"k": 3}
K == 3
\* status of a QueryResponse returned normally
StatusOK == 200
\* HTTPException(status_code=503, ...)
StatusNotReady == 503
\* HTTPException(status_code=500, ...)
StatusInternalError == 500

Threads == {"t1", "t2"}
\* the thread that runs startup_event
Startup == "t1"
Questions == {"q1", "q2"}
\* similarity of an index entry to a question: low or high (ties are possible)
Scores == {0, 1}

\* a file below data/: the directory it is in (<<>> is data/ itself), its base
\* name, its extension, and its path
File(dir, base, ext, path) == [dir |-> dir, base |-> base, ext |-> ext, path |-> path]
ManualA == File(<<>>, "a", "pdf", "data/a.pdf")
DataUniverse ==
    { ManualA, File(<<>>, "b", "pdf", "data/b.pdf"),
      File(<<"sub">>, "c", "pdf", "data/sub/c.pdf"),
      File(<<>>, "notes", "txt", "data/notes.txt") }

\* the path PyPDFLoader records as metadata['source']
SourcePath(f) == f.path

\* a langchain Document: page_content and metadata
Doc(content, meta) == [page_content |-> content, metadata |-> meta]
\* the chunk the ingestion run makes of file f (one page, shorter than CHUNK_SIZE)
ChunkOf(f) == Doc(f.base, [source |-> SourcePath(f)])
\* the entries of the index the service opens: the chunk the ingestion run
\* makes of data/a.pdf, and an entry written by another tool, whose metadata
\* has no 'source' key
ManualChunk == ChunkOf(ManualA)
IndexEntries == { ManualChunk, Doc("x", [page |-> "1"]) }

RECURSIVE SeqsUpTo(_, _)
SeqsUpTo(S, n) ==
    IF n = 0 THEN { <<>> }
    ELSE LET shorter == SeqsUpTo(S, n - 1)
         IN shorter \cup { Append(s, x) : s \in shorter, x \in S }

VARIABLES
    apiKey,     \* os.getenv("MISTRAL_API_KEY") is set
    dbExists,   \* os.path.exists(VECTOR_DB_PATH)
    store,      \* the persisted index: its entries in insertion order
    qa_chain,   \* the global qa_chain: NoChain or the id of a pipeline
    built,      \* number of (embeddings, vector_store, llm) triples constructed
    pc,         \* per thread: position in initialize_qa_chain / startup_event
    local,      \* per thread: the triple this call constructed (lines 57-63)
    ret,        \* per thread: value returned by its last call
    exc,        \* per thread: exception raised by its last call
    calls,      \* per thread: calls made so far
    fatal,      \* what startup_event printed as FATAL ERROR
    last,       \* the last /query request and its response
    prev,       \* status of the response before it
    dataFiles,  \* the files below data/
    gpc,        \* position of the ingestion run
    documents,  \* documents loaded by the run
    chunks,     \* chunks split by the run, not yet written
    startStore, \* the index as it was when the run began
    diag        \* what the run printed / raised

svcVars == <<apiKey, dbExists, store, qa_chain, built, pc, local, ret, exc, calls,
             fatal, last, prev>>
ingVars == <<dataFiles, gpc, documents, chunks, startStore, diag>>
vars == <<apiKey, dbExists, store, qa_chain, built, pc, local, ret, exc, calls,
          fatal, last, prev, dataFiles, gpc, documents, chunks, startStore, diag>>

(* ------------------------ initialize_qa_chain -------------------------- *)
\* mutant: the early return is never taken
AlreadyInitializedNever(chain) == FALSE
\* `if qa_chain is not None`
AlreadyInitialized(chain) == chain # NoChain

\* mutant: the API key check is skipped
KeyMissingIgnored(key) == FALSE
\* `if not os.getenv("MISTRAL_API_KEY")`
KeyMissing(key) == ~key

\* `if not os.path.exists(VECTOR_DB_PATH)`
DbMissing(exists) == ~exists

\* line 43-46: return the stored chain, or go on to initialize
InitCheck(t) ==
    /\ pc[t] = "check"
    /\ IF AlreadyInitialized(qa_chain)
       THEN /\ ret' = [ret EXCEPT ![t] = qa_chain]
            /\ pc' = [pc EXCEPT ![t] = "done"]
       ELSE /\ pc' = [pc EXCEPT ![t] = "key"]
            /\ UNCHANGED ret
    /\ UNCHANGED <<apiKey, dbExists, store, qa_chain, built, local, exc, calls,
                   fatal, last, prev>>
    /\ UNCHANGED ingVars

\* line 49-50
InitKey(t) ==
    /\ pc[t] = "key"
    /\ IF KeyMissing(apiKey)
       THEN /\ exc' = [exc EXCEPT ![t] = "ValueError"]
            /\ pc' = [pc EXCEPT ![t] = "raised"]
       ELSE /\ pc' = [pc EXCEPT ![t] = "db"]
            /\ UNCHANGED exc
    /\ UNCHANGED <<apiKey, dbExists, store, qa_chain, built, local, ret, calls,
                   fatal, last, prev>>
    /\ UNCHANGED ingVars

\* line 53-54
InitDb(t) ==
    /\ pc[t] = "db"
    /\ IF DbMissing(dbExists)
       THEN /\ exc' = [exc EXCEPT ![t] = "FileNotFoundError"]
            /\ pc' = [pc EXCEPT ![t] = "raised"]
       ELSE /\ pc' = [pc EXCEPT ![t] = "load"]
            /\ UNCHANGED exc
    /\ UNCHANGED <<apiKey, dbExists, store, qa_chain, built, local, ret, calls,
                   fatal, last, prev>>
    /\ UNCHANGED ingVars

\* line 57-63: construct embeddings, vector_store, llm and the retriever
InitLoad(t) ==
    /\ pc[t] = "load"
    /\ built' = built + 1
    /\ local' = [local EXCEPT ![t] = built + 1]
    /\ pc' = [pc EXCEPT ![t] = "assign"]
    /\ UNCHANGED <<apiKey, dbExists, store, qa_chain, ret, exc, calls, fatal, last, prev>>
    /\ UNCHANGED ingVars

\* line 66-71: build the chain over the triple and store it in the global
InitAssign(t) ==
    /\ pc[t] = "assign"
    /\ qa_chain' = local[t]
    /\ pc' = [pc EXCEPT ![t] = "ret"]
    /\ UNCHANGED <<apiKey, dbExists, store, built, local, ret, exc, calls, fatal, last, prev>>
    /\ UNCHANGED ingVars

\* line 73: `return qa_chain` reads the global
InitReturn(t) ==
    /\ pc[t] = "ret"
    /\ ret' = [ret EXCEPT ![t] = qa_chain]
    /\ pc' = [pc EXCEPT ![t] = "done"]
    /\ UNCHANGED <<apiKey, dbExists, store, qa_chain, built, local, exc, calls,
                   fatal, last, prev>>
    /\ UNCHANGED ingVars

InitializeStep(t) ==
    \/ InitCheck(t)
    \/ InitKey(t)
    \/ InitDb(t)
    \/ InitLoad(t)
    \/ InitAssign(t)
    \/ InitReturn(t)

(* ---------------------------- startup_event ---------------------------- *)
\* line 81-82: except (ValueError, FileNotFoundError) as e: print FATAL ERROR
StartupExcept ==
    /\ pc[Startup] = "raised"
    /\ fatal' = exc[Startup]
    /\ pc' = [pc EXCEPT ![Startup] = "caught"]
    /\ UNCHANGED <<apiKey, dbExists, store, qa_chain, built, local, ret, exc, calls,
                   last, prev>>
    /\ UNCHANGED ingVars

\* the application serves requests once the startup hook has returned
Serving == pc[Startup] \in {"done", "caught"}

(* ---------------------------- query_endpoint --------------------------- *)
\* mutant: the guard of line 94 is dropped
NotReadyDropped(chain) == FALSE
\* `if qa_chain is None`
NotReady(chain) == chain = NoChain

\* position of the best entry among the positions `left`: highest score,
\* the earlier-inserted entry on a tie
Best(scores, left) ==
    CHOOSE i \in left :
        \A j \in left : scores[i] > scores[j] \/ (scores[i] = scores[j] /\ i <= j)

RECURSIVE TopK(_, _, _)
TopK(scores, left, k) ==
    IF k = 0 \/ left = {} THEN <<>>
    ELSE LET b == Best(scores, left)
         IN <<b>> \o TopK(scores, left \ {b}, k - 1)

\* vector_store.as_retriever(search_kwargs={"k": 3}): the positions of the k
\* most similar entries, most similar first
Retrieve(index, scores) == TopK(scores, DOMAIN index, K)

\* doc.metadata.get(key, default)
MetadataGet(meta, key, default) ==
    IF key \in DOMAIN meta THEN meta[key] ELSE default

\* SourceDocument(source=..., content=...)
SourceDocument(source, content) == [source |-> source, content |-> content]

\* mutant: the sources are listed in reverse
FormatSourcesReversed(docs) ==
    [i \in 1..Len(docs) |->
        SourceDocument(MetadataGet(docs[Len(docs) + 1 - i].metadata, "source", "N/A"),
                       docs[Len(docs) + 1 - i].page_content)]
\* line 102-108: one SourceDocument per returned document, in order
FormatSources(docs) ==
    [i \in 1..Len(docs) |->
        SourceDocument(MetadataGet(docs[i].metadata, "source", "N/A"),
                       docs[i].page_content)]

\* no request has been answered yet (status 0)
NoRequest ==
    [question |-> "", status |-> 0, invoked |-> FALSE, raised |-> FALSE,
     docs |-> <<>>, scores |-> <<>>, sources |-> <<>>]

\* mutant: a failure of the chain is reported as not-ready
ChainErrorStatusNotReady == StatusNotReady
\* `except Exception as e: raise HTTPException(status_code=500, ...)`
ChainErrorStatus == StatusInternalError

\* the request and response of one call of query_endpoint with the global at
\* `chain`; `raises` says whether qa_chain.invoke raises, `scores` gives the
\* similarity of each index entry to the question
QueryEndpoint(chain, question, index, scores, raises) ==
    IF NotReady(chain)
    THEN [NoRequest EXCEPT !.question = question, !.status = StatusNotReady]
    ELSE IF raises \/ chain = NoChain
    THEN [NoRequest EXCEPT !.question = question, !.status = ChainErrorStatus,
                           !.invoked = TRUE, !.raised = TRUE]
    ELSE LET hits == Retrieve(index, scores)
             docs == [i \in 1..Len(hits) |-> index[hits[i]]]
         IN [question |-> question, status |-> StatusOK, invoked |-> TRUE,
             raised |-> FALSE, docs |-> docs,
             scores |-> [i \in 1..Len(hits) |-> scores[hits[i]]],
             sources |-> FormatSources(docs)]

\* mutant: the handler initializes the chain itself when it finds none
QueryLazyInit ==
    /\ Serving
    /\ \E question \in Questions, raises \in BOOLEAN,
          scores \in [DOMAIN store -> Scores] :
          /\ last' = QueryEndpoint(IF qa_chain = NoChain THEN built + 1 ELSE qa_chain,
                                   question, store, scores, raises)
          /\ prev' = last.status
    /\ qa_chain' = IF qa_chain = NoChain THEN built + 1 ELSE qa_chain
    /\ built' = IF qa_chain = NoChain THEN built + 1 ELSE built
    /\ UNCHANGED <<apiKey, dbExists, store, pc, local, ret, exc, calls, fatal>>
    /\ UNCHANGED ingVars
\* POST /query: line 90-115, run to completion on the event loop
Query ==
    /\ Serving
    /\ \E question \in Questions, raises \in BOOLEAN,
          scores \in [DOMAIN store -> Scores] :
          /\ last' = QueryEndpoint(qa_chain, question, store, scores, raises)
          /\ prev' = last.status
    /\ UNCHANGED <<apiKey, dbExists, store, qa_chain, built, pc, local, ret, exc,
                   calls, fatal>>
    /\ UNCHANGED ingVars

(* --------------------- the index seen by the service ------------------- *)
\* a run of 1_ingest_data.py over data/a.pdf creates the index at
\* VECTOR_DB_PATH, or adds the chunk to the index that is there
ExternalIngest ==
    /\ Len(store) < MaxChunks
    /\ store' = Append(store, ManualChunk)
    /\ dbExists' = TRUE
    /\ UNCHANGED <<apiKey, qa_chain, built, pc, local, ret, exc, calls, fatal, last, prev>>
    /\ UNCHANGED ingVars

IngestIdle ==
    /\ dataFiles = {}
    /\ gpc = "idle"
    /\ documents = <<>>
    /\ chunks = <<>>
    /\ startStore = <<>>
    /\ diag = "none"

(* ------------------------------- Spec ---------------------------------- *)
Init ==
    /\ apiKey \in BOOLEAN
    /\ dbExists \in BOOLEAN
    /\ store \in SeqsUpTo(IndexEntries, MaxChunks)
    /\ dbExists = FALSE => store = <<>>
    /\ qa_chain = NoChain
    /\ built = 0
    /\ pc = [t \in Threads |-> IF t = Startup THEN "check" ELSE "idle"]
    /\ local = [t \in Threads |-> NoChain]
    /\ ret = [t \in Threads |-> NoChain]
    /\ exc = [t \in Threads |-> "none"]
    /\ calls = [t \in Threads |-> IF t = Startup THEN 1 ELSE 0]
    /\ fatal = "none"
    /\ last = NoRequest
    /\ prev = NoRequest.status
    /\ IngestIdle

StartupStep == InitializeStep(Startup)

Next ==
    \/ StartupStep
    \/ StartupExcept
    \/ Query
    \/ ExternalIngest

Spec == Init /\ [][Next]_vars

\* the startup hook runs to its end, and a serving application keeps answering
\* the requests it gets
LiveSpec == Spec /\ WF_vars(StartupStep) /\ WF_vars(StartupExcept) /\ WF_vars(Query)

(* ----------------------------- InitSpec -------------------------------- *)
\* a thread calls initialize_qa_chain()
Call(t) ==
    /\ pc[t] \in {"idle", "done", "raised"}
    /\ calls[t] < MaxCalls
    /\ calls' = [calls EXCEPT ![t] = calls[t] + 1]
    /\ pc' = [pc EXCEPT ![t] = "check"]
    /\ exc' = [exc EXCEPT ![t] = "none"]
    /\ ret' = [ret EXCEPT ![t] = NoChain]
    /\ local' = [local EXCEPT ![t] = NoChain]
    /\ UNCHANGED <<apiKey, dbExists, store, qa_chain, built, fatal, last, prev>>
    /\ UNCHANGED ingVars

\* between calls the environment variable is set or unset, the index directory
\* created or removed
EnvChange ==
    /\ \E k \in BOOLEAN, d \in BOOLEAN :
          /\ <<k, d>> # <<apiKey, dbExists>>
          /\ apiKey' = k
          /\ dbExists' = d
    /\ UNCHANGED <<store, qa_chain, built, pc, local, ret, exc, calls, fatal, last, prev>>
    /\ UNCHANGED ingVars

InitI ==
    /\ apiKey \in BOOLEAN
    /\ dbExists \in BOOLEAN
    /\ store = <<>>
    /\ qa_chain = NoChain
    /\ built = 0
    /\ pc = [t \in Threads |-> "idle"]
    /\ local = [t \in Threads |-> NoChain]
    /\ ret = [t \in Threads |-> NoChain]
    /\ exc = [t \in Threads |-> "none"]
    /\ calls = [t \in Threads |-> 0]
    /\ fatal = "none"
    /\ last = NoRequest
    /\ prev = NoRequest.status
    /\ IngestIdle

NextI ==
    \/ \E t \in Threads : Call(t)
    \/ \E t \in Threads : InitializeStep(t)
    \/ EnvChange

InitSpec == InitI /\ [][NextI]_vars

(* --------------------------- 1_ingest_data.py --------------------------- *)
\* os.listdir(DATA_PATH): the names directly in data/, files and directories
ListDir(files) ==
    { [base |-> f.base, ext |-> f.ext] : f \in {g \in files : g.dir = <<>>} }
    \cup { [base |-> Head(f.dir), ext |-> ""] : f \in {g \in files : g.dir # <<>>} }

\* `any(f.endswith('.pdf') for f in os.listdir(DATA_PATH))`
HasPdfInListing(files) == \E n \in ListDir(files) : n.ext = "pdf"

\* DirectoryLoader(data_path, glob="**/*.pdf"): the files the loader reads, in
\* data/ and in every directory below it
LoaderMatches(files) == { f \in files : f.ext = "pdf" }

\* the orders in which the loader may come upon the files of S
Orderings(S) ==
    { s \in SeqsUpTo(S, Cardinality(S)) :
        Len(s) = Cardinality(S) /\ { s[i] : i \in 1..Len(s) } = S }

\* split_documents: every page is shorter than CHUNK_SIZE and comes out as one
\* chunk with the page's text and metadata
SplitDocuments(docs) == [i \in 1..Len(docs) |-> docs[i]]

InRun == gpc \in {"check", "load", "split", "open", "write", "persist"}

\* the files of data/ change between runs
DataChange ==
    /\ ~InRun
    /\ \E files \in SUBSET DataUniverse :
          /\ files # dataFiles
          /\ dataFiles' = files
    /\ UNCHANGED <<gpc, documents, chunks, startStore, diag>>
    /\ UNCHANGED svcVars

\* line 57-60: a run starts; the directories data/ and models/ are made
IngestStart ==
    /\ ~InRun
    /\ Len(store) + Cardinality(LoaderMatches(dataFiles)) <= MaxChunks
    /\ gpc' = "check"
    /\ startStore' = store
    /\ documents' = <<>>
    /\ chunks' = <<>>
    /\ diag' = "none"
    /\ UNCHANGED dataFiles
    /\ UNCHANGED svcVars

\* line 63-65: the check that the user has placed some data
IngestCheck ==
    /\ gpc = "check"
    /\ IF ~HasPdfInListing(dataFiles)
       THEN /\ diag' = "ERROR: place .pdf files into data/"
            /\ gpc' = "aborted"
       ELSE /\ gpc' = "load"
            /\ UNCHANGED diag
    /\ UNCHANGED <<dataFiles, documents, chunks, startStore>>
    /\ UNCHANGED svcVars

\* line 66, load_documents: one document per page of every matched file, or
\* the loader raises
IngestLoad ==
    /\ gpc = "load"
    /\ \/ /\ \E order \in Orderings(LoaderMatches(dataFiles)) :
               documents' = [i \in 1..Len(order) |-> ChunkOf(order[i])]
          /\ gpc' = "split"
          /\ UNCHANGED diag
       \/ /\ gpc' = "crashed"
          /\ diag' = "load_documents raised"
          /\ UNCHANGED documents
    /\ UNCHANGED <<dataFiles, chunks, startStore>>
    /\ UNCHANGED svcVars

\* line 67, split_documents
IngestSplit ==
    /\ gpc = "split"
    /\ chunks' = SplitDocuments(documents)
    /\ gpc' = "open"
    /\ UNCHANGED <<dataFiles, documents, startStore, diag>>
    /\ UNCHANGED svcVars

\* line 45-52: the embedding model is loaded and Chroma.from_documents opens
\* the collection at persist_directory, creating the directory, or raises
IngestOpen ==
    /\ gpc = "open"
    /\ \/ /\ dbExists' = TRUE
          /\ gpc' = "write"
          /\ UNCHANGED diag
       \/ /\ gpc' = "crashed"
          /\ diag' = "create_vector_store raised"
          /\ UNCHANGED dbExists
    /\ UNCHANGED <<dataFiles, documents, chunks, startStore>>
    /\ UNCHANGED <<apiKey, store, qa_chain, built, pc, local, ret, exc, calls,
                   fatal, last, prev>>

\* line 48-52: from_documents embeds the chunks and adds them, under fresh ids,
\* to the collection at persist_directory, one batch after the other (a batch
\* holds one chunk here); embedding or adding a batch may raise
IngestWrite ==
    /\ gpc = "write"
    /\ \/ /\ chunks # <<>>
          /\ store' = Append(store, Head(chunks))
          /\ chunks' = Tail(chunks)
          /\ UNCHANGED <<gpc, diag>>
       \/ /\ chunks # <<>>
          /\ gpc' = "crashed"
          /\ diag' = "create_vector_store raised"
          /\ UNCHANGED <<store, chunks>>
       \/ /\ chunks = <<>>
          /\ gpc' = "persist"
          /\ UNCHANGED <<store, chunks, diag>>
    /\ UNCHANGED <<dataFiles, documents, startStore>>
    /\ UNCHANGED <<apiKey, dbExists, qa_chain, built, pc, local, ret, exc, calls,
                   fatal, last, prev>>

\* line 53-54: db.persist() returns, or raises
IngestPersist ==
    /\ gpc = "persist"
    /\ \/ /\ gpc' = "done"
          /\ diag' = "persisted"
       \/ /\ gpc' = "crashed"
          /\ diag' = "create_vector_store raised"
    /\ UNCHANGED <<dataFiles, documents, chunks, startStore>>
    /\ UNCHANGED svcVars

InitG ==
    /\ apiKey = FALSE
    /\ dbExists = FALSE
    /\ store = <<>>
    /\ qa_chain = NoChain
    /\ built = 0
    /\ pc = [t \in Threads |-> "idle"]
    /\ local = [t \in Threads |-> NoChain]
    /\ ret = [t \in Threads |-> NoChain]
    /\ exc = [t \in Threads |-> "none"]
    /\ calls = [t \in Threads |-> 0]
    /\ fatal = "none"
    /\ last = NoRequest
    /\ prev = NoRequest.status
    /\ dataFiles \in SUBSET DataUniverse
    /\ gpc = "idle"
    /\ documents = <<>>
    /\ chunks = <<>>
    /\ startStore = <<>>
    /\ diag = "none"

NextG ==
    \/ DataChange
    \/ IngestStart
    \/ IngestCheck
    \/ IngestLoad
    \/ IngestSplit
    \/ IngestOpen
    \/ IngestWrite
    \/ IngestPersist

IngestSpec == InitG /\ [][NextG]_vars

(* =============================== claims ================================ *)
\* a step in which query_endpoint answered a request
QueryStep == <<last, prev>>' # <<last, prev>>

\* C1: while qa_chain is None (initialize_qa_chain has not completed
\* successfully), every /query request is answered 503 not-ready and the chain
\* is never invoked.
C1_NotReadyRejected ==
    qa_chain = NoChain =>
        /\ last.status \in {NoRequest.status, StatusNotReady}
        /\ prev \in {NoRequest.status, StatusNotReady}
        /\ ~last.invoked
C1_Witness ==
    /\ qa_chain = NoChain
    /\ last.status = StatusNotReady
    /\ ~last.invoked

\* C2: two concurrent callers of initialize_qa_chain on an uninitialized
\* service construct exactly one pipeline, and both end up with that pipeline.
C2_SingleConstruction ==
    /\ built <= 1
    /\ \A t \in Threads, u \in Threads :
          (pc[t] = "done" /\ pc[u] = "done" /\ ret[t] # NoChain /\ ret[u] # NoChain)
              => ret[t] = ret[u]

\* C3: once a pipeline is stored, a call of initialize_qa_chain is a no-op: its
\* first step returns the stored pipeline, constructs nothing and leaves
\* qa_chain unchanged, whatever the API key and the index directory are.
C3_InitializedCallIsNoOp ==
    [][\A t \in Threads :
          (pc[t] = "check" /\ qa_chain # NoChain /\ pc'[t] # "check")
              => /\ pc'[t] = "done"
                 /\ ret'[t] = qa_chain
                 /\ exc'[t] = "none"
                 /\ qa_chain' = qa_chain
                 /\ built' = built
                 /\ local' = local]_vars
C3_Witness ==
    \E t \in Threads :
        /\ pc[t] = "done"
        /\ local[t] = NoChain
        /\ ret[t] = qa_chain
        /\ qa_chain # NoChain
        /\ built = 1
        /\ ~apiKey
        /\ ~dbExists

\* C4: when the API key is missing or the index is missing at startup,
\* initialization fails, startup_event reports the cause, qa_chain stays None
\* with no pipeline built, and every query from then on is rejected not-ready.
C4_ConfigErrorNeverReady ==
    /\ [][((pc[Startup] = "key" /\ ~apiKey /\ pc'[Startup] # "key")
            => (pc'[Startup] = "raised" /\ exc'[Startup] = "ValueError"))
          /\ ((pc[Startup] = "db" /\ ~dbExists /\ pc'[Startup] # "db")
            => (pc'[Startup] = "raised" /\ exc'[Startup] = "FileNotFoundError"))
          /\ (pc[Startup] = "raised" => pc'[Startup] \in {"raised", "caught"})
          /\ (pc[Startup] = "caught" => pc'[Startup] = "caught")
          /\ (fatal # "none" => fatal' = fatal)]_vars
    /\ [](pc[Startup] \in {"raised", "caught"} =>
            /\ qa_chain = NoChain
            /\ built = 0
            /\ last.status \in {NoRequest.status, StatusNotReady}
            /\ prev \in {NoRequest.status, StatusNotReady})
    /\ [](pc[Startup] = "caught" =>
            /\ fatal = exc[Startup]
            /\ fatal \in {"ValueError", "FileNotFoundError"})
    /\ []((Serving /\ ~apiKey) => fatal = "ValueError")
C4_Witness ==
    /\ fatal = "FileNotFoundError"
    /\ apiKey
    /\ qa_chain = NoChain
    /\ last.status = StatusNotReady
    /\ prev = StatusNotReady

\* C5: a failure of the chain during a query fails that request alone, with
\* 500 and not 503; qa_chain and the index are unchanged, and a later query on
\* which the chain succeeds is answered successfully.
C5_ChainFailureIsolated ==
    /\ [][(QueryStep /\ last'.raised)
            => /\ last'.status = StatusInternalError
               /\ last'.status # StatusNotReady
               /\ qa_chain # NoChain
               /\ qa_chain' = qa_chain
               /\ store' = store
               /\ dbExists' = dbExists
               /\ pc' = pc]_vars
    /\ [][(QueryStep /\ last.status = StatusInternalError
             /\ last'.invoked /\ ~last'.raised)
            => last'.status = StatusOK]_vars
C5_Witness ==
    /\ prev = StatusInternalError
    /\ last.status = StatusOK
    /\ qa_chain # NoChain

\* C6: no query changes the shared state: qa_chain, the persisted index and
\* the initialization state are the same after it as before, initialized or not.
C6_QueryLeavesSharedState ==
    [][QueryStep
        => /\ qa_chain' = qa_chain
           /\ built' = built
           /\ store' = store
           /\ dbExists' = dbExists
           /\ pc' = pc
           /\ local' = local
           /\ fatal' = fatal]_vars
C6_Witness ==
    /\ prev = StatusNotReady
    /\ last.status = StatusNotReady
    /\ apiKey
    /\ dbExists
    /\ built = 0

ConfigValid == apiKey /\ dbExists

\* C7: once the configuration is valid, a caller that keeps retrying a query
\* that was rejected not-ready eventually gets it processed.
C7_RetryEventuallyProcessed ==
    (last.status = StatusNotReady /\ ConfigValid)
        ~> (last.status \in {StatusOK, StatusInternalError})

\* C8: a run aborts at the check exactly when the loader's pattern matches no
\* file: with no match it prints the diagnostic and leaves the store alone,
\* with a match it goes on to load, split and persist.
C8_AbortIffNoMatch ==
    /\ gpc = "aborted" =>
          /\ LoaderMatches(dataFiles) = {}
          /\ diag # "none"
          /\ store = startStore
    /\ gpc \in {"load", "split", "open", "write", "persist", "done"} =>
          LoaderMatches(dataFiles) # {}

\* C9: a run that ends leaves the store as the old entries followed by the new
\* ones, or as the new ones alone; a run that fails leaves it as it was.
C9_AtomicReingest ==
    /\ gpc = "done" =>
          \/ store = startStore \o SplitDocuments(documents)
          \/ store = SplitDocuments(documents)
    /\ gpc = "crashed" => store = startStore

\* C10: the sources of a successful response are the documents the retriever
\* returned, one for one and in order (score descending), at most k = 3, each
\* with the document's text and its 'source' metadata, or 'N/A' without one.
C10_SourcesMirrorRetrieval ==
    last.status = StatusOK =>
        /\ Len(last.sources) = Len(last.docs)
        /\ Len(last.sources) <= K
        /\ \A i \in 1..Len(last.sources) :
              /\ last.sources[i].content = last.docs[i].page_content
              /\ last.sources[i].source =
                    IF "source" \in DOMAIN last.docs[i].metadata
                    THEN last.docs[i].metadata.source
                    ELSE "N/A"
        /\ \A i \in 1..Len(last.scores), j \in 1..Len(last.scores) :
              i < j => last.scores[i] >= last.scores[j]
C10_Witness ==
    /\ last.status = StatusOK
    /\ Len(store) > K
    /\ Len(last.sources) = K
    /\ \E i \in 1..Len(last.sources) : last.sources[i].source = "N/A"
    /\ \E i \in 1..Len(last.sources) : last.sources[i].source = "data/a.pdf"
    /\ \E i \in 1..Len(last.scores) : last.scores[i] # last.scores[1]

====
